---- MODULE Spec2Model ----
(***************************************************************************)
(* Model of the smart waste bin sensor node firmware                       *)
(* (src/sensor_firmware.ino): one boot of the ESP32 runs setup(), one pass *)
(* of loop() (measure, estimate, read battery, broadcast) and then deep    *)
(* sleep, from which a timer wake resets the chip.                         *)
(*                                                                         *)
(* Number representation.  The firmware computes in IEEE float/double; the *)
(* model computes in exact fixed point:                                    *)
(*   distances in 1/CmScale cm (duration * 0.034 / 2 = duration * 17 / 1000*)
(*   cm), voltages in 1/VoltScale V.                                       *)
(* On every input the model enumerates, the fixed-point result equals the  *)
(* result of the float computation (fill level, millivolts).               *)
(***************************************************************************)
EXTENDS Integers, Sequences, FiniteSets

\* ---------------------------------------------------------------- constants
BIN_DEPTH_CM == 80
SENSOR_OFFSET_CM == 5
NUM_SAMPLES == 5
MAX_DISTANCE_CM == 200
PULSE_TIMEOUT_US == 30000
ID_FIELD_LEN == 6

\* "VAR_012" as character codes
BIN_ID == <<86, 65, 82, 95, 48, 49, 50>>

\* fixed-point scales of the model
CmScale == 1000
VoltScale == 10000

\* ------------------------------------------------------------------- bounds
\* longest identifier string tried as build-time configuration
MaxIdLen == 7

\* --------------------------------------------------------- enumerated inputs
\* values pulseIn(ECHO_PIN, HIGH, 30000) returns: 0 = no echo, else microseconds
PulseDurations == {0, 200, 2412, 6000, PULSE_TIMEOUT_US}

\* values analogRead(BATTERY_PIN) returns (12 bit ADC)
AdcValues == {0, 272, 273, 2048, 4094, 4095}

\* values millis() returns when the payload is built
MillisValues == {350, 999, 1000, 256000, 65536000, 2147483647}

\* identifier strings of length n: BIN_ID repeated / cut
IdOfLen(n) == [k \in 1..n |-> BIN_ID[((k - 1) % Len(BIN_ID)) + 1]]

ConfigIds == {IdOfLen(n) : n \in 0..MaxIdLen}

\* distances handed to calculateFillLevel as a pure function: quarter
\* centimetres from -10 cm to 300 cm (exact in binary floating point)
FillInputs == {250 * k : k \in (-40)..1200}

VARIABLES
  pc,              \* position in setup()/loop()
  binId,           \* BIN_ID the firmware was built with
  bleInit,         \* setupBLE() has run since reset (pAdvertising valid)
  i,               \* measureDistance: loop index
  duration,        \* measureDistance: last pulseIn result
  readings,        \* measureDistance: readings[NUM_SAMPLES] (1-based here)
  pulses,          \* number of pulseIn calls this boot
  timeouts,        \* number of pulseIn calls that returned 0 this boot
  distance,        \* loop: distance
  fillLevel,       \* loop: fillLevel
  rawValue,        \* readBatteryVoltage: rawValue
  batteryVoltage,  \* global batteryVoltage
  timestamp,       \* broadcastData: timestamp
  payload,         \* broadcastData: manufacturerData handed to the radio
  payloadSet,      \* setAdvertisementData called this boot
  advertising,     \* radio is advertising
  advStopped,      \* pAdvertising->stop() called this boot
  timerArmed       \* esp_sleep_enable_timer_wakeup called this boot

vars == <<pc, binId, bleInit, i, duration, readings, pulses, timeouts,
          distance, fillLevel, rawValue, batteryVoltage, timestamp, payload,
          payloadSet, advertising, advStopped, timerArmed>>

\* ------------------------------------------------------------ pure functions
\* lines 103-107 without the no-echo branch
ReadingOfNoSentinel(d) == (d * 34) \div 2

\* lines 103-107: one raw reading from one echo duration
ReadingOf(d) ==
  IF d = 0 THEN MAX_DISTANCE_CM * CmScale
  ELSE (d * 34) \div 2

\* lines 115-119 with the temporary dropped
CompareSwapNoTemp(r, a, b) ==
  IF r[a] > r[b] THEN [r EXCEPT ![a] = r[b]] ELSE r

\* lines 115-119 (the array expression r is evaluated once, as s)
CompareSwap(r, a, b) ==
  CHOOSE t \in {IF s[a] > s[b] THEN [s EXCEPT ![a] = s[b], ![b] = s[a]] ELSE s
                  : s \in {r}} : TRUE

RECURSIVE SortInner(_, _, _)
\* line 114: for (j = i + 1; j < NUM_SAMPLES; j++)
SortInner(r, a, b) ==
  IF b > NUM_SAMPLES THEN r
  ELSE SortInner(CompareSwap(r, a, b), a, b + 1)

RECURSIVE SortOuter(_, _)
\* line 113: for (i = 0; i < NUM_SAMPLES - 1; i++)
SortOuter(r, a) ==
  IF a > NUM_SAMPLES - 1 THEN r
  ELSE SortOuter(SortInner(r, a, a + 1), a + 1)

SortReadings(r) == SortOuter(r, 1)

\* line 124: readings[NUM_SAMPLES / 2], 1-based
MedianIndex == (NUM_SAMPLES \div 2) + 1

\* calculateFillLevel without the sensor offset
calculateFillLevelNoOffset(d) ==
  LET depth == BIN_DEPTH_CM * CmScale
      fillPercentage == ((depth - d) * 100) \div depth
  IN  IF d <= 0 THEN 100
      ELSE IF d >= depth THEN 0
      ELSE IF fillPercentage < 0 THEN 0
      ELSE IF fillPercentage > 100 THEN 100
      ELSE fillPercentage

\* lines 131-153
calculateFillLevel(d) ==
  LET adjustedDistance == d - SENSOR_OFFSET_CM * CmScale
      depth == BIN_DEPTH_CM * CmScale
      fillPercentage == ((depth - adjustedDistance) * 100) \div depth
  IN  IF adjustedDistance <= 0 THEN 100
      ELSE IF adjustedDistance >= depth THEN 0
      ELSE IF fillPercentage < 0 THEN 0
      ELSE IF fillPercentage > 100 THEN 100
      ELSE fillPercentage

\* readBatteryVoltage without the divider factor
readBatteryVoltageNoDivider(raw) == (raw * 33 * (VoltScale \div 10)) \div 4095

\* line 164: (rawValue / 4095.0) * 3.3 * 2.0, in 1/VoltScale V
readBatteryVoltage(raw) == (raw * 33 * 2 * (VoltScale \div 10)) \div 4095

\* line 205: (uint16_t)(voltage * 1000)
VoltageMillivolts(v) == ((v * 1000) \div VoltScale) % 65536

\* line 205-207 with the two voltage bytes in the other order
VoltageBytesBigEndian(mv) == <<(mv \div 256) % 256, mv % 256>>

\* lines 206-207
VoltageBytes(mv) == <<mv % 256, (mv \div 256) % 256>>

\* line 210: millis() / 1000
TimestampOf(ms) == ms \div 1000

\* lines 211-214
TimestampBytes(t) ==
  <<t % 256, (t \div 256) % 256, (t \div 65536) % 256, (t \div 16777216) % 256>>

\* lines 196-199: first 6 characters of the identifier, fewer if it is shorter
IdBytes(id) ==
  SubSeq(id, 1, IF Len(id) < ID_FIELD_LEN THEN Len(id) ELSE ID_FIELD_LEN)

\* lines 193-214
ManufacturerData(id, fill, v, t) ==
  IdBytes(id) \o <<fill % 256>> \o VoltageBytes(VoltageMillivolts(v))
              \o TimestampBytes(t)

\* ------------------------------------------------------------ initial states
ZeroReadings == [k \in 1..NUM_SAMPLES |-> 0]

\* state of the chip after reset, before setup()
AfterReset ==
  /\ pc = "setup"
  /\ bleInit = FALSE
  /\ i = 0
  /\ duration = 0
  /\ readings = ZeroReadings
  /\ pulses = 0
  /\ timeouts = 0
  /\ distance = 0
  /\ fillLevel = 0
  /\ rawValue = 0
  /\ batteryVoltage = 0
  /\ timestamp = 0
  /\ payload = <<>>
  /\ payloadSet = FALSE
  /\ advertising = FALSE
  /\ advStopped = FALSE
  /\ timerArmed = FALSE

Init ==
  /\ binId = BIN_ID
  /\ AfterReset

\* ------------------------------------------------------------------- actions
\* setup(), lines 41-53
Setup ==
  /\ pc = "setup"
  /\ bleInit' = TRUE
  /\ pc' = "pulse"
  /\ UNCHANGED <<binId, i, duration, readings, pulses, timeouts, distance,
                 fillLevel, rawValue, batteryVoltage, timestamp, payload,
                 payloadSet, advertising, advStopped, timerArmed>>

\* measureDistance, one iteration of the loop of lines 93-110
Pulse ==
  /\ pc = "pulse"
  /\ i < NUM_SAMPLES
  /\ \E d \in PulseDurations :
       /\ duration' = d
       /\ readings' = [readings EXCEPT ![i + 1] = ReadingOf(d)]
       /\ timeouts' = IF d = 0 THEN timeouts + 1 ELSE timeouts
  /\ pulses' = pulses + 1
  /\ i' = i + 1
  /\ pc' = IF i + 1 < NUM_SAMPLES THEN "pulse" ELSE "sort"
  /\ UNCHANGED <<binId, bleInit, distance, fillLevel, rawValue,
                 batteryVoltage, timestamp, payload, payloadSet, advertising,
                 advStopped, timerArmed>>

\* measureDistance, lines 112-124, and the assignment of line 59
SortAndReturn ==
  /\ pc = "sort"
  /\ readings' = SortReadings(readings)
  /\ distance' = readings'[MedianIndex]
  /\ pc' = "fill"
  /\ UNCHANGED <<binId, bleInit, i, duration, pulses, timeouts, fillLevel,
                 rawValue, batteryVoltage, timestamp, payload, payloadSet,
                 advertising, advStopped, timerArmed>>

\* loop, line 65
Estimate ==
  /\ pc = "fill"
  /\ fillLevel' = calculateFillLevel(distance)
  /\ pc' = "battery"
  /\ UNCHANGED <<binId, bleInit, i, duration, readings, pulses, timeouts,
                 distance, rawValue, batteryVoltage, timestamp, payload,
                 payloadSet, advertising, advStopped, timerArmed>>

\* loop, line 71, and readBatteryVoltage
ReadBattery ==
  /\ pc = "battery"
  /\ \E raw \in AdcValues :
       /\ rawValue' = raw
       /\ batteryVoltage' = readBatteryVoltage(raw)
  /\ pc' = "encode"
  /\ UNCHANGED <<binId, bleInit, i, duration, readings, pulses, timeouts,
                 distance, fillLevel, timestamp, payload, payloadSet,
                 advertising, advStopped, timerArmed>>

\* broadcastData, lines 193-221
Encode ==
  /\ pc = "encode"
  /\ \E ms \in MillisValues :
       /\ timestamp' = TimestampOf(ms)
       /\ payload' = ManufacturerData(binId, fillLevel, batteryVoltage,
                                      timestamp')
  /\ payloadSet' = TRUE
  /\ pc' = "adv_start"
  /\ UNCHANGED <<binId, bleInit, i, duration, readings, pulses, timeouts,
                 distance, fillLevel, rawValue, batteryVoltage, advertising,
                 advStopped, timerArmed>>

\* broadcastData, line 224
AdvStart ==
  /\ pc = "adv_start"
  /\ advertising' = TRUE
  /\ pc' = "adv_hold"
  /\ UNCHANGED <<binId, bleInit, i, duration, readings, pulses, timeouts,
                 distance, fillLevel, rawValue, batteryVoltage, timestamp,
                 payload, payloadSet, advStopped, timerArmed>>

\* broadcastData returning after the hold without stopping the radio
AdvStopSkipped ==
  /\ pc = "adv_hold"
  /\ pc' = "to_sleep"
  /\ UNCHANGED <<binId, bleInit, i, duration, readings, pulses, timeouts,
                 distance, fillLevel, rawValue, batteryVoltage, timestamp,
                 payload, payloadSet, advertising, advStopped, timerArmed>>

\* broadcastData restarting the advertisement after each hold
AdvStopRestart ==
  /\ pc = "adv_hold"
  /\ advertising' = FALSE
  /\ advStopped' = TRUE
  /\ pc' = "adv_start"
  /\ UNCHANGED <<binId, bleInit, i, duration, readings, pulses, timeouts,
                 distance, fillLevel, rawValue, batteryVoltage, timestamp,
                 payload, payloadSet, timerArmed>>

\* broadcastData, lines 228-232: the 5 s hold ends, stop()
AdvStop ==
  /\ pc = "adv_hold"
  /\ advertising' = FALSE
  /\ advStopped' = TRUE
  /\ pc' = "to_sleep"
  /\ UNCHANGED <<binId, bleInit, i, duration, readings, pulses, timeouts,
                 distance, fillLevel, rawValue, batteryVoltage, timestamp,
                 payload, payloadSet, timerArmed>>

\* a sleep call that returns into loop(), which then starts over
EnterLightSleep ==
  /\ pc = "to_sleep"
  /\ timerArmed' = TRUE
  /\ i' = 0
  /\ pc' = "pulse"
  /\ UNCHANGED <<binId, bleInit, duration, readings, pulses, timeouts,
                 distance, fillLevel, rawValue, batteryVoltage, timestamp,
                 payload, payloadSet, advertising, advStopped>>

\* loop, lines 80-82, and enterDeepSleep, lines 238-241
EnterDeepSleep ==
  /\ pc = "to_sleep"
  /\ timerArmed' = TRUE
  /\ pc' = "asleep"
  /\ UNCHANGED <<binId, bleInit, i, duration, readings, pulses, timeouts,
                 distance, fillLevel, rawValue, batteryVoltage, timestamp,
                 payload, payloadSet, advertising, advStopped>>

\* the wake timer fires: deep sleep ends in a reset, setup() runs again
Wake ==
  /\ pc = "asleep"
  /\ pc' = "setup"
  /\ bleInit' = FALSE
  /\ i' = 0
  /\ duration' = 0
  /\ readings' = ZeroReadings
  /\ pulses' = 0
  /\ timeouts' = 0
  /\ distance' = 0
  /\ fillLevel' = 0
  /\ rawValue' = 0
  /\ batteryVoltage' = 0
  /\ timestamp' = 0
  /\ payload' = <<>>
  /\ payloadSet' = FALSE
  /\ advertising' = FALSE
  /\ advStopped' = FALSE
  /\ timerArmed' = FALSE
  /\ UNCHANGED binId

Next ==
  \/ Setup
  \/ Pulse
  \/ SortAndReturn
  \/ Estimate
  \/ ReadBattery
  \/ Encode
  \/ AdvStart
  \/ AdvStop
  \/ EnterDeepSleep
  \/ Wake

Spec == Init /\ [][Next]_vars

\* every step of the firmware is a blocking call that returns: the echo wait
\* has a timeout, the delays are fixed, the wake timer is armed before sleep.
\* The firmware is one thread, so at most one action is enabled in a state
\* and fairness of Next is fairness of each action.
FairSpec == Spec /\ WF_vars(Next)

\* the firmware built with any identifier string
ConfigInit ==
  /\ binId \in ConfigIds
  /\ AfterReset

ConfigSpec == ConfigInit /\ [][Next]_vars

\* calculateFillLevel, readBatteryVoltage and broadcastData's encoding applied
\* to a wide range of distances: the state is that of loop() at line 65 with
\* the distance under test in place of the measured one
UnitInit ==
  /\ binId = BIN_ID
  /\ pc = "fill"
  /\ bleInit = TRUE
  /\ i = NUM_SAMPLES
  /\ duration = 1
  /\ distance \in FillInputs
  /\ readings = [k \in 1..NUM_SAMPLES |-> distance]
  /\ pulses = NUM_SAMPLES
  /\ timeouts = 0
  /\ fillLevel = 0
  /\ rawValue = 0
  /\ batteryVoltage = 0
  /\ timestamp = 0
  /\ payload = <<>>
  /\ payloadSet = FALSE
  /\ advertising = FALSE
  /\ advStopped = FALSE
  /\ timerArmed = FALSE

UnitNext ==
  \/ Estimate
  \/ ReadBattery
  \/ Encode

UnitSpec == UnitInit /\ [][UnitNext]_vars

\* ------------------------------------------------- states of the duty cycle
\* the state of the cycle  Init -> Sample -> Estimate -> ReadBattery ->
\* Encode -> Advertise -> Sleep  that a position of setup()/loop() belongs to
State ==
  CASE pc = "setup" -> "Init"
    [] pc \in {"pulse", "sort"} -> "Sample"
    [] pc = "fill" -> "Estimate"
    [] pc = "battery" -> "ReadBattery"
    [] pc = "encode" -> "Encode"
    [] pc \in {"adv_start", "adv_hold"} -> "Advertise"
    [] pc \in {"to_sleep", "asleep"} -> "Sleep"

SuccState(s) ==
  CASE s = "Init" -> "Sample"
    [] s = "Sample" -> "Estimate"
    [] s = "Estimate" -> "ReadBattery"
    [] s = "ReadBattery" -> "Encode"
    [] s = "Encode" -> "Advertise"
    [] s = "Advertise" -> "Sleep"
    [] s = "Sleep" -> "Init"

MaxDistance == MAX_DISTANCE_CM * CmScale
Offset == SENSOR_OFFSET_CM * CmScale
Depth == BIN_DEPTH_CM * CmScale

\* measureDistance has returned
Measured == pc \notin {"setup", "pulse", "sort"}

\* calculateFillLevel has returned
Estimated == pc \notin {"setup", "pulse", "sort", "fill"}

\* the inverse of the fixed payload layout
DecodeFill(p) == p[ID_FIELD_LEN + 1]
DecodeMillivolts(p) == p[ID_FIELD_LEN + 2] + 256 * p[ID_FIELD_LEN + 3]
DecodeUptime(p) ==
  p[ID_FIELD_LEN + 4] + 256 * p[ID_FIELD_LEN + 5]
    + 65536 * p[ID_FIELD_LEN + 6] + 16777216 * p[ID_FIELD_LEN + 7]

\* ------------------------------------------------------------------- claims
\* m is the statistical median of the odd-length array r: an element with at
\* most half of the others below it and at most half above it
IsMedianOf(m, r) ==
  /\ \E k \in DOMAIN r : r[k] = m
  /\ Cardinality({k \in DOMAIN r : r[k] < m}) <= Len(r) \div 2
  /\ Cardinality({k \in DOMAIN r : r[k] > m}) <= Len(r) \div 2

\* s is r sorted ascending
IsSortOf(s, r) ==
  /\ Len(s) = Len(r)
  /\ \A k \in 1..(Len(s) - 1) : s[k] <= s[k + 1]
  /\ \A v \in {r[k] : k \in DOMAIN r} \cup {s[k] : k \in DOMAIN s} :
       Cardinality({k \in DOMAIN r : r[k] = v})
         = Cardinality({k \in DOMAIN s : s[k] = v})

\* C1: whatever the order of the NUM_SAMPLES raw readings, measureDistance
\* returns their statistical median, the value at index NUM_SAMPLES/2 of the
\* readings sorted ascending.
C1_MedianReturned ==
  [][(pc = "sort" /\ pc' = "fill") =>
       /\ IsSortOf(readings', readings)
       /\ distance' = readings'[(NUM_SAMPLES \div 2) + 1]
       /\ IsMedianOf(distance', readings)]_vars

C1_Witness ==
  /\ pc = "fill"
  /\ duration = 200
  /\ readings = <<3400, 41004, 41004, 200000, 510000>>
  /\ distance = 41004

\* C2: the distance estimate measureDistance returns is always within
\* [0, MAX_DISTANCE_CM].
C2_DistanceWithinMax ==
  Measured => (0 <= distance /\ distance <= MaxDistance)

\* C3: calculateFillLevel(d) is 100 for d <= offset, 0 for d >= offset + depth,
\* otherwise (depth - (d - offset)) / depth * 100 truncated; always in 0..100;
\* d = 41 gives 55 and d = offset + depth/2 gives 50.
C3_FillLevel ==
  Estimated =>
    /\ fillLevel \in 0..100
    /\ (distance <= Offset => fillLevel = 100)
    /\ (distance >= Offset + Depth => fillLevel = 0)
    /\ (Offset < distance /\ distance < Offset + Depth =>
          /\ fillLevel * Depth <= (Depth - (distance - Offset)) * 100
          /\ (Depth - (distance - Offset)) * 100 < (fillLevel + 1) * Depth)
    /\ (distance = 41 * CmScale => fillLevel = 55)
    /\ (distance = Offset + Depth \div 2 => fillLevel = 50)

C3_Witness ==
  /\ pc = "battery"
  /\ distance = 41 * CmScale
  /\ fillLevel = 55

\* C4: the manufacturer-data payload is always exactly 13 bytes long, for
\* every configured identifier string, shorter than 6 characters included.
C4_PayloadLength13 ==
  payloadSet => Len(payload) = 13

\* C5: decoding the payload with the inverse fixed layout recovers the fill
\* level, the millivolt value floor(voltage * 1000) without 16-bit wrap, and
\* the uptime in seconds.
C5_RoundTrip ==
  payloadSet =>
    /\ DecodeFill(payload) = fillLevel
    /\ DecodeMillivolts(payload) = (batteryVoltage * 1000) \div VoltScale
    /\ DecodeUptime(payload) = timestamp

C5_Witness ==
  /\ payloadSet
  /\ fillLevel = 37
  /\ rawValue = 4095
  /\ timestamp = 2147483

\* C6 as stated: a raw ADC reading of 2048 is encoded as 3297 mV and decodes
\* back to 3297 mV.
C6_Adc2048Is3297 ==
  (payloadSet /\ rawValue = 2048) => DecodeMillivolts(payload) = 3297

\* C6 amended: a raw ADC reading of 2048 gives (2048 / 4095) * 3.3 * 2.0 =
\* 3.3008 V, is encoded as 3300 mV and decodes back to exactly 3300 mV.
C6_Adc2048Is3300 ==
  (payloadSet /\ rawValue = 2048) =>
    /\ (batteryVoltage * 1000) \div VoltScale = 3300
    /\ DecodeMillivolts(payload) = 3300

C6_Witness ==
  /\ payloadSet
  /\ rawValue = 2048
  /\ pc = "adv_hold"

\* C7: every boot goes through Init, Sample, Estimate, ReadBattery, Encode,
\* Advertise, Sleep once each and in that order; the only way out of Sleep is
\* the wake that restarts at Init with BLE not yet initialised, and Init is
\* left with BLE initialised.
C7_LinearCycle ==
  [][/\ (State' = State \/ State' = SuccState(State))
     /\ (State = "Sleep" /\ State' # "Sleep" => pc = "asleep" /\ ~bleInit')
     /\ (State = "Init" /\ State' = "Sample" => bleInit')]_vars

C7_Witness ==
  /\ pc = "asleep"
  /\ pulses = NUM_SAMPLES
  /\ payloadSet
  /\ timerArmed

\* C8: the radio advertises only in the Advertise state and only after the
\* payload of this cycle was set; never during a distance or battery
\* measurement; it is stopped before the wake timer is armed, and the node
\* is never in Sleep with advertising active.
C8_AdvertiseWindow ==
  /\ (advertising => State = "Advertise" /\ payloadSet /\ bleInit)
  /\ (State \in {"Sample", "Estimate", "ReadBattery"} => ~advertising)
  /\ (State = "Sleep" => ~advertising /\ advStopped)
  /\ (timerArmed => ~advertising /\ advStopped)

C8_Witness ==
  /\ pc = "asleep"
  /\ timerArmed
  /\ advStopped
  /\ ~advertising

\* C9: whatever the sensor outcomes and the ADC value, every cycle reaches
\* Sleep; no state other than Sleep is occupied forever.
C9_ReachesSleep ==
  (State # "Sleep") ~> (State = "Sleep")

C9_Witness ==
  /\ pc = "asleep"
  /\ timeouts = 2
  /\ rawValue = 273

\* C10: a sampling round makes exactly NUM_SAMPLES pulse measurements; a
\* timed-out one contributes MAX_DISTANCE_CM and is not retried; if all time
\* out the estimate is MAX_DISTANCE_CM, the fill level 0, and the cycle still
\* broadcasts.
C10_TimeoutSentinel ==
  /\ pulses = i
  /\ pulses <= NUM_SAMPLES
  /\ timeouts <= pulses
  /\ (pc \notin {"setup", "pulse"} => pulses = NUM_SAMPLES)
  /\ (pc \in {"pulse", "sort"} /\ i > 0 /\ duration = 0 =>
        readings[i] = MaxDistance)
  /\ (Measured /\ timeouts = NUM_SAMPLES => distance = MaxDistance)
  /\ (Estimated /\ timeouts = NUM_SAMPLES => fillLevel = 0)
  /\ (State = "Sleep" /\ timeouts = NUM_SAMPLES =>
        payloadSet /\ advStopped /\ DecodeFill(payload) = 0)

C10_Witness ==
  /\ pc = "asleep"
  /\ timeouts = NUM_SAMPLES
  /\ distance = MaxDistance
  /\ advStopped

====
